---- MODULE Spec2Model ----
(***************************************************************************)
(* Model of the shoe-shop backend: the catalog adapter                     *)
(* (backend/app/dynamodb_client.py), the search bridge                     *)
(* (backend/app/bedrock_client.py) and the two endpoints of                *)
(* backend/app/main.py that the properties below speak about.             *)
(*                                                                         *)
(* Python values are tagged records [t |-> <type>, v |-> <value>].         *)
(* A str is a sequence of atoms (characters or whole words), so that       *)
(* strip(), lower(), concatenation and substring tests are computed.       *)
(* Numbers are held in hundredths: 89.99 is 8999, size 9.5 is 950.         *)
(***************************************************************************)
EXTENDS Integers, Sequences, FiniteSets, TLC

VARIABLES
    \* ---- catalog adapter (DynamoDBClient) ----
    db_mock_mode,   \* self.mock_mode, fixed by __init__
    table,          \* the items of the backing table, in scan order
    db_pc,          \* "idle" | "scanning" | "done"
    db_op,          \* the method being executed
    db_args,        \* its arguments
    scan_kwargs,    \* local scan_kwargs of the running method
    products,       \* local accumulator `products`
    db_result,      \* what the method returned or raised
    pages,          \* history: the Items of every response received by this call
    requests,       \* history: the arguments of every store call sent by this call
    cursors,        \* history: the LastEvaluatedKey of every page received
                    \* (0: the page had none)
    endpoint,       \* the route of main.py that made the call, "none" if direct
    api_args,       \* the query parameters of GET /api/products
    db_http,        \* status of the route's response (0: none)
    \* ---- search bridge (BedrockClient) and POST /api/search ----
    agent_mock_mode,    \* self.mock_mode, fixed by __init__
    s_pc,               \* "idle" | "streaming" | "done"
    via_endpoint,       \* TRUE when the call came through POST /api/search
    query,              \* argument query
    session_id,         \* argument session_id
    current_session_id, \* local current_session_id
    agent_calls,        \* history: invoke_agent requests sent to the agent
    agent_echo,         \* "sessionId" of the agent's response (None if absent)
    events,             \* history: the stream events consumed so far
    completion,         \* local accumulator `completion`
    s_products,         \* local accumulator `products`
    s_result,           \* what invoke_agent returned or raised
    s_path,             \* which return statement produced s_result
    http_status,        \* status of the endpoint's response (0: none)
    generated,          \* history: the values uuid4() has returned so far
    \* ---- across calls ----
    remembered,         \* history: an earlier filtered list, its criteria and
                        \* the kinds of call completed since
    suspended           \* the locals of a second call on each adapter, which
                        \* is not the one taking steps

db_vars == <<db_mock_mode, table, db_pc, db_op, db_args, scan_kwargs, products,
             db_result, pages, requests, cursors, endpoint, api_args, db_http>>
s_vars == <<agent_mock_mode, s_pc, via_endpoint, query, session_id,
            current_session_id, agent_calls, agent_echo, events, completion,
            s_products, s_result, s_path, http_status, generated>>
vars == <<db_vars, s_vars, remembered, suspended>>

----------------------------------------------------------------------------
(* Bounds of the model *)

\* largest number of items in the backing table
MaxItems == 3
\* largest number of events in one agent stream
MaxEvents == 3
\* largest number of session ids generated in one behaviour
MaxUuids == 2

----------------------------------------------------------------------------
(* Python values *)

None == [t |-> "None"]
Str(s) == [t |-> "str", v |-> s]
W(w) == Str(<<w>>)
Flt(n) == [t |-> "float", v |-> n]
Dec(n) == [t |-> "Decimal", v |-> n]
PyInt(n) == [t |-> "int", v |-> n]
Bool(b) == [t |-> "bool", v |-> b]
List(s) == [t |-> "list", v |-> s]

IsNone(x) == x.t = "None"
IsNum(x) == x.t \in {"float", "Decimal", "int"}

\* Python truth value: `if x:`
Truthy(x) ==
    CASE x.t = "None" -> FALSE
      [] x.t = "str" -> x.v # <<>>
      [] x.t = "list" -> x.v # <<>>
      [] x.t = "bool" -> x.v
      [] IsNum(x) -> x.v # 0
      [] OTHER -> TRUE

\* Python ==
PyEq(a, b) == IF IsNum(a) /\ IsNum(b) THEN a.v = b.v ELSE a = b

----------------------------------------------------------------------------
(* Catalog data *)

Shoe(id, name, brand, type, color, sizes, price, featured, rating) ==
    [shoe_id |-> W(id), name |-> W(name), brand |-> W(brand), type |-> W(type),
     color |-> W(color), sizes |-> List(sizes), price |-> price,
     image_url |-> W("https://example.com/" \o id \o ".jpg"),
     description |-> W(name \o " for testing"),
     featured |-> Bool(featured), rating |-> rating, stock |-> Bool(TRUE)]

\* the static dataset of _get_mock_products
mock_products ==
    << Shoe("mock-001", "Mock Running Shoe", "Nike", "running", "red",
            <<Flt(900), Flt(1000), Flt(1100)>>, Flt(8999), TRUE, Flt(450)),
       Shoe("mock-002", "Mock Casual Sneaker", "Adidas", "casual", "blue",
            <<Flt(800), Flt(900), Flt(1000)>>, Flt(7550), FALSE, Flt(430)),
       Shoe("mock-003", "Mock Formal Shoe", "Clarks", "formal", "black",
            <<Flt(900), Flt(1000), Flt(1100), Flt(1200)>>, Flt(12000), FALSE, Flt(470)),
       Shoe("mock-004", "Mock Running Trainer", "Nike", "running", "black",
            <<Flt(900), Flt(1000), Flt(1100)>>, Flt(9500), TRUE, Flt(460)) >>

\* Items as the table resource hands them out: every number is a Decimal,
\* also inside the sizes list; an item may lack attributes.
StoredItems ==
    << Shoe("s-1", "Air", "Nike", "running", "black",
            <<Dec(900), Dec(1200)>>, Dec(9999), TRUE, Dec(450)),
       [shoe_id |-> W("s-2"), name |-> W("Bare"), price |-> Dec(0)],
       Shoe("s-3", "Loafer", "Clarks", "casual", "black",
            <<Dec(1200)>>, Dec(8500), FALSE, Dec(400)),
       Shoe("s-4", "Zoom", "Nike", "running", "red",
            <<Dec(950)>>, Dec(12000), TRUE, Dec(500)),
       Shoe("s-5", "Oxford", "Clarks", "formal", "black",
            <<Dec(900), Dec(1000)>>, Dec(9000), FALSE, Dec(470)),
       Shoe("s-6", "Trail", "Puma", "running", "black",
            <<Dec(1200)>>, Dec(9000), TRUE, Dec(300)) >>

\* the stored items at the positions I, in stored order
ItemsAt(I) ==
    LET at == SelectSeq([i \in 1..Len(StoredItems) |-> i], LAMBDA i : i \in I)
    IN  [k \in 1..Len(at) |-> StoredItems[at[k]]]

\* the table holds any of the items, at most MaxItems of them
Tables == {ItemsAt(I) : I \in {J \in SUBSET (1..Len(StoredItems)) : Cardinality(J) <= MaxItems}}

\* arguments the callers pass
TypeArgs == {None, Str(<<>>), W("running")}
ColorArgs == {None, Str(<<>>), W("black")}
SizeArgs == {None, Flt(0), Flt(1200), PyInt(1200)}
PriceArgs == {None, Flt(0), Flt(9000)}
IdArgs == {W("s-1"), W("s-2"), W("s-3"), W("mock-002"), W("nope")}

Criteria == [type : TypeArgs, color : ColorArgs, size : SizeArgs,
             price_min : PriceArgs, price_max : PriceArgs]
NoCriteria == [type |-> None, color |-> None, size |-> None,
               price_min |-> None, price_max |-> None]

\* the query parameters GET /api/products can be given: Optional[str],
\* Optional[float], and Optional[float] with ge=0.0
ApiCriteria == [type : TypeArgs, color : ColorArgs, size : {None, Flt(0), Flt(1200)},
                price_min : PriceArgs, price_max : PriceArgs]

----------------------------------------------------------------------------
(* The table resource: conditions, serialization, scan and get_item *)

\* Attr(a).eq(v), .contains(v), .gte(v), .lte(v)
Cond(attr, op, val) == [attr |-> attr, op |-> op, val |-> val]

\* One condition applied by the table to one stored item.
Holds(item, c) ==
    /\ c.attr \in DOMAIN item
    /\ LET x == item[c.attr] IN
       CASE c.op = "eq" ->
                IF IsNum(x) /\ IsNum(c.val) THEN x.v = c.val.v ELSE x = c.val
         [] c.op = "contains" ->
                /\ x.t = "list"
                /\ \E i \in 1..Len(x.v) :
                      IF IsNum(x.v[i]) /\ IsNum(c.val) THEN x.v[i].v = c.val.v
                      ELSE x.v[i] = c.val
         [] c.op = "gte" -> IsNum(x) /\ IsNum(c.val) /\ x.v >= c.val.v
         [] c.op = "lte" -> IsNum(x) /\ IsNum(c.val) /\ x.v <= c.val.v

\* a FilterExpression is the chain c1 & c2 & ... held as a sequence
HoldsAll(item, filter) == \A i \in 1..Len(filter) : Holds(item, filter[i])

\* The resource refuses to send a Python float ("Float types are not
\* supported. Use Decimal types instead."): the scan raises TypeError.
Sendable(kwargs) ==
    \A i \in 1..Len(kwargs.FilterExpression) :
        kwargs.FilterExpression[i].val.t # "float"

\* a page cut down to its first matching item
PageItemsFirstOnly(kwargs, upto) ==
    LET m == SelectSeq(SubSeq(table, kwargs.ExclusiveStartKey + 1, upto),
                       LAMBDA item : HoldsAll(item, kwargs.FilterExpression))
    IN  IF m = <<>> THEN m ELSE <<m[1]>>

\* table.scan(**kwargs) answered with the items up to position `upto`,
\* of which only the matching ones are in the page
PageItems(kwargs, upto) ==
    SelectSeq(SubSeq(table, kwargs.ExclusiveStartKey + 1, upto),
              LAMBDA item : HoldsAll(item, kwargs.FilterExpression))

\* a lookup that answers with the first stored item whatever the key
GetItemAny(key) ==
    IF table = <<>> THEN [found |-> FALSE] ELSE [found |-> TRUE, Item |-> table[1]]

\* table.get_item(Key={"shoe_id": key}): the response, with "Item" if stored
GetItem(key) ==
    LET hits == {i \in 1..Len(table) : table[i].shoe_id = key} IN
    IF hits = {} THEN [found |-> FALSE]
    ELSE [found |-> TRUE, Item |-> table[CHOOSE i \in hits : TRUE]]

----------------------------------------------------------------------------
(* DynamoDBClient: helpers *)

\* float(value) of a Decimal
ToFloat(x) == Flt(x.v)

\* Decimal(str(x)) of a float or int argument
DecimalOfStr(x) == Dec(x.v)

\* one item of _convert_decimals: only the item's own values are looked at
ConvertItem(item) ==
    [k \in DOMAIN item |-> IF item[k].t = "Decimal" THEN ToFloat(item[k]) ELSE item[k]]

_convert_decimals(items) == [i \in 1..Len(items) |-> ConvertItem(items[i])]

\* a scan loop that keeps only the page just received
ExtendKeepsLastPage(acc, items) == items

\* a scan loop that takes one item of every page
ExtendFirstItemOnly(acc, items) ==
    acc \o (IF items = <<>> THEN <<>> ELSE <<Head(items)>>)

\* products.extend(response.get("Items", []))
Extend(acc, items) == acc \o items

\* the filter_expression built by get_products_by_filters; <<>> is None
BuildFilter(a) ==
    (IF Truthy(a.type) THEN <<Cond("type", "eq", a.type)>> ELSE <<>>)
    \o (IF Truthy(a.color) THEN <<Cond("color", "eq", a.color)>> ELSE <<>>)
    \o (IF Truthy(a.size) THEN <<Cond("sizes", "contains", a.size)>> ELSE <<>>)
    \o (IF ~IsNone(a.price_min)
        THEN <<Cond("price", "gte", DecimalOfStr(a.price_min))>> ELSE <<>>)
    \o (IF ~IsNone(a.price_max)
        THEN <<Cond("price", "lte", DecimalOfStr(a.price_max))>> ELSE <<>>)

FeaturedFilter == <<Cond("featured", "eq", Bool(TRUE))>>

\* the list comprehensions of _get_mock_products
TypeIs(p, type) == PyEq(p.type, type)
ColorIs(p, color) == PyEq(p.color, color)
HasSize(p, size) == \E i \in 1..Len(p.sizes.v) : PyEq(p.sizes.v[i], size)
PriceAtLeast(p, price_min) == p.price.v >= price_min.v
PriceAtMost(p, price_max) == p.price.v <= price_max.v

\* the "Apply filters" part of _get_mock_products over a product list
ApplyFilters(dataset, a) ==
    LET f1 == IF Truthy(a.type)
              THEN SelectSeq(dataset, LAMBDA p : TypeIs(p, a.type))
              ELSE dataset
        f2 == IF Truthy(a.color) THEN SelectSeq(f1, LAMBDA p : ColorIs(p, a.color))
              ELSE f1
        f3 == IF Truthy(a.size) THEN SelectSeq(f2, LAMBDA p : HasSize(p, a.size))
              ELSE f2
        f4 == IF ~IsNone(a.price_min)
              THEN SelectSeq(f3, LAMBDA p : PriceAtLeast(p, a.price_min))
              ELSE f3
    IN  IF ~IsNone(a.price_max)
        THEN SelectSeq(f4, LAMBDA p : PriceAtMost(p, a.price_max))
        ELSE f4

_get_mock_products(a) == ApplyFilters(mock_products, a)

\* a test that takes every product for featured
IsFeaturedAnyProduct(p, dflt) == TRUE

\* p.get("featured", False)
IsFeatured(p, dflt) == IF "featured" \in DOMAIN p THEN Truthy(p.featured) ELSE dflt

\* the order of Python str comparison on the words that occur as type or color
WordOrder == <<"athletic", "black", "blue", "boots", "brown", "casual",
               "formal", "red", "running", "white">>
WordRank(w) == CHOOSE i \in 1..Len(WordOrder) : WordOrder[i] = w
StrLess(a, b) == WordRank(a.v[1]) < WordRank(b.v[1])

RECURSIVE sorted(_)
\* sorted(list(S)) of a set of str
sorted(S) ==
    IF S = {} THEN <<>>
    ELSE LET m == CHOOSE x \in S : \A y \in S \ {x} : StrLess(x, y)
         IN  <<m>> \o sorted(S \ {m})

\* categories listed in scan order, neither sorted nor deduplicated
CategoriesInScanOrder(items) ==
    [types |-> [k \in 1..Len(SelectSeq(items, LAMBDA p : "type" \in DOMAIN p)) |->
                    SelectSeq(items, LAMBDA p : "type" \in DOMAIN p)[k].type],
     colors |-> [k \in 1..Len(SelectSeq(items, LAMBDA p : "color" \in DOMAIN p)) |->
                    SelectSeq(items, LAMBDA p : "color" \in DOMAIN p)[k].color]]

\* the dictionary get_categories builds from the scanned products
CategoriesOf(items) ==
    [types |-> sorted({items[i].type : i \in {j \in 1..Len(items) : "type" \in DOMAIN items[j]}}),
     colors |-> sorted({items[i].color : i \in {j \in 1..Len(items) : "color" \in DOMAIN items[j]}})]

MockCategories ==
    [types |-> <<W("running"), W("casual"), W("formal"), W("athletic"), W("boots")>>,
     colors |-> <<W("red"), W("blue"), W("black"), W("white"), W("brown")>>]

NoResult == [kind |-> "none"]
Return(v) == [kind |-> "return", value |-> v]
Raise(msg, cause) == [kind |-> "raise", error |-> msg, cause |-> cause]

ScanOps == {"get_all_products", "get_products_by_filters",
            "get_featured_products", "get_categories"}

\* the message prefix of each method's `except Exception` clause
ErrorPrefix(op) ==
    CASE op = "get_all_products" -> "Error retrieving products"
      [] op = "get_products_by_filters" -> "Error filtering products"
      [] op = "get_product_by_id" -> "Error retrieving product"
      [] op = "get_featured_products" -> "Error retrieving featured products"
      [] op = "get_categories" -> "Error retrieving categories"

\* the return statement that follows the scan loop
AfterScan(op, acc) ==
    IF op = "get_categories" THEN Return(CategoriesOf(acc))
    ELSE Return(_convert_decimals(acc))

NoKwargs == [FilterExpression |-> <<>>, ExclusiveStartKey |-> 0]

\* ShoeProduct(**product) validates
ValidShoe(p) ==
    /\ {"shoe_id", "name", "brand", "type", "color", "sizes", "price",
        "image_url", "description", "rating"} \subseteq DOMAIN p
    /\ p.rating.v >= 0 /\ p.rating.v <= 500

Routes == {"/api/products", "/api/products/{shoe_id}", "/api/featured", "/api/categories"}

\* any([type, color, size, price_min, price_max]) of get_products
AnyFilter(a) ==
    Truthy(a.type) \/ Truthy(a.color) \/ Truthy(a.size)
        \/ Truthy(a.price_min) \/ Truthy(a.price_max)

\* status of a catalog route for what the client method returned or raised:
\* the try body builds the response model, `except Exception` answers 500,
\* the HTTPException(404) of the product route is re-raised
ApiStatus(route, r) ==
    CASE route = "none" -> 0
      [] r.kind = "raise" -> 500
      [] route = "/api/categories" -> 200
      [] route = "/api/products/{shoe_id}" ->
            IF r.value = None THEN 404
            ELSE IF ValidShoe(r.value) THEN 200 ELSE 500
      [] OTHER ->
            IF \A i \in 1..Len(r.value) : ValidShoe(r.value[i]) THEN 200 ELSE 500

----------------------------------------------------------------------------
(* DynamoDBClient: the methods *)

DbIdle ==
    /\ db_op = "none" /\ db_args = NoCriteria /\ scan_kwargs = NoKwargs
    /\ products = <<>> /\ db_result = NoResult /\ pages = <<>> /\ requests = <<>>
    /\ cursors = <<>>
    /\ endpoint = "none" /\ api_args = NoCriteria /\ db_http = 0

\* an entry that takes the live branch whatever the mode
EnterLive(route, op, args, mockValue, filter) ==
    /\ endpoint' = route
    /\ db_op' = op
    /\ db_args' = args
    /\ products' = <<>>
    /\ db_result' = NoResult
    /\ db_http' = 0
    /\ db_pc' = "scanning"
    /\ scan_kwargs' = [FilterExpression |-> filter, ExclusiveStartKey |-> 0]
    /\ UNCHANGED <<db_mock_mode, table, pages, requests, cursors, s_vars, remembered, suspended>>

\* entry of a method called by `route`: the mock branch returns at once,
\* the live branch prepares scan_kwargs and enters the scan loop
Enter(route, op, args, mockValue, filter) ==
    /\ endpoint' = route
    /\ db_op' = op
    /\ db_args' = args
    /\ products' = <<>>
    /\ IF db_mock_mode
       THEN /\ db_result' = Return(mockValue)
            /\ db_http' = ApiStatus(route, Return(mockValue))
            /\ db_pc' = "done"
            /\ scan_kwargs' = NoKwargs
       ELSE /\ db_result' = NoResult
            /\ db_http' = 0
            /\ db_pc' = "scanning"
            /\ scan_kwargs' = [FilterExpression |-> filter, ExclusiveStartKey |-> 0]
    /\ UNCHANGED <<db_mock_mode, table, pages, requests, cursors, s_vars, remembered, suspended>>

AllProducts(route) ==
    Enter(route, "get_all_products", NoCriteria, _get_mock_products(NoCriteria), <<>>)

ProductsByFilters(route, a) ==
    Enter(route, "get_products_by_filters", a, _get_mock_products(a), BuildFilter(a))

FeaturedProducts(route) ==
    Enter(route, "get_featured_products", NoCriteria,
          SelectSeq(_get_mock_products(NoCriteria), LAMBDA p : IsFeatured(p, FALSE)),
          FeaturedFilter)

Categories(route) ==
    Enter(route, "get_categories", NoCriteria, MockCategories, <<>>)

\* get_product_by_id called by `route`: the first mock product with that
\* id, or the stored item under that key, or None; or get_item raises
ProductById(route, id) ==
    /\ endpoint' = route
    /\ db_op' = "get_product_by_id"
    /\ db_args' = [NoCriteria EXCEPT !.type = id]
    /\ IF db_mock_mode
       THEN LET all == _get_mock_products(NoCriteria)
                hits == {i \in 1..Len(all) : PyEq(all[i].shoe_id, id)}
            IN  /\ db_result' = IF hits = {} THEN Return(None)
                                ELSE Return(all[CHOOSE i \in hits : \A j \in hits : i <= j])
            /\ UNCHANGED <<requests, pages>>
       ELSE /\ requests' = Append(requests, [Key |-> id])
            /\ \/ LET response == GetItem(id) IN
                  /\ db_result' = IF response.found
                                  THEN Return(_convert_decimals(<<response.Item>>)[1])
                                  ELSE Return(None)
                  /\ pages' = Append(pages, IF response.found THEN <<response.Item>>
                                            ELSE <<>>)
               \/ /\ db_result' = Raise("DynamoDB error", "ClientError")
                  /\ UNCHANGED pages
    /\ db_http' = ApiStatus(route, db_result')
    /\ db_pc' = "done"
    /\ UNCHANGED <<db_mock_mode, table, scan_kwargs, products, cursors, s_vars, remembered, suspended>>

\* ---- the methods called directly ----

get_all_products ==
    /\ db_pc = "idle"
    /\ api_args' = NoCriteria
    /\ AllProducts("none")

get_products_by_filters ==
    /\ db_pc = "idle"
    /\ api_args' = NoCriteria
    /\ \E a \in Criteria : ProductsByFilters("none", a)

get_featured_products ==
    /\ db_pc = "idle"
    /\ api_args' = NoCriteria
    /\ FeaturedProducts("none")

get_categories ==
    /\ db_pc = "idle"
    /\ api_args' = NoCriteria
    /\ Categories("none")

get_product_by_id ==
    /\ db_pc = "idle"
    /\ api_args' = NoCriteria
    /\ \E id \in IdArgs : ProductById("none", id)

\* ---- the routes of main.py ----

\* GET /api/products
api_get_products ==
    /\ db_pc = "idle"
    /\ \E a \in ApiCriteria :
          /\ api_args' = a
          /\ IF AnyFilter(a) THEN ProductsByFilters("/api/products", a)
             ELSE AllProducts("/api/products")

\* GET /api/products/{shoe_id}
api_get_product_by_id ==
    /\ db_pc = "idle"
    /\ api_args' = NoCriteria
    /\ \E id \in IdArgs : ProductById("/api/products/{shoe_id}", id)

\* GET /api/featured
api_get_featured_products ==
    /\ db_pc = "idle"
    /\ api_args' = NoCriteria
    /\ FeaturedProducts("/api/featured")

\* GET /api/categories
api_get_categories ==
    /\ db_pc = "idle"
    /\ api_args' = NoCriteria
    /\ Categories("/api/categories")

\* a next request built anew, with the cursor only
NextKwargsCursorOnly(kwargs, key) == [FilterExpression |-> <<>>, ExclusiveStartKey |-> key]

\* scan_kwargs["ExclusiveStartKey"] = response["LastEvaluatedKey"]
NextKwargs(kwargs, key) == [kwargs EXCEPT !.ExclusiveStartKey = key]

\* one round of the `while True` loop: a scan that the table answers
ScanPage ==
    /\ db_pc = "scanning"
    /\ Sendable(scan_kwargs)
    /\ \E upto \in (scan_kwargs.ExclusiveStartKey)..Len(table), more \in BOOLEAN :
          /\ more => upto > scan_kwargs.ExclusiveStartKey
          /\ ~more => upto = Len(table)
          /\ LET items == PageItems(scan_kwargs, upto)
                 acc == Extend(products, items)
             IN  /\ products' = acc
                 /\ pages' = Append(pages, items)
                 /\ cursors' = Append(cursors, IF more THEN upto ELSE 0)
                 /\ requests' = Append(requests, scan_kwargs)
                 /\ \/ /\ more
                       /\ scan_kwargs' = NextKwargs(scan_kwargs, upto)
                       /\ UNCHANGED <<db_pc, db_result, db_http>>
                    \/ /\ ~more
                       /\ db_result' = AfterScan(db_op, acc)
                       /\ db_http' = ApiStatus(endpoint, AfterScan(db_op, acc))
                       /\ db_pc' = "done"
                       /\ UNCHANGED scan_kwargs
    /\ UNCHANGED <<db_mock_mode, table, db_op, db_args, endpoint, api_args, s_vars, remembered, suspended>>

\* a handler that hands back the products fetched so far
ScanErrorReturnsFetched(op, kwargs) == Return(products)

\* the outcome of a scan that raises: the table is unreachable
\* (ClientError), or a float in the filter cannot be sent (TypeError)
ScanError(op, kwargs) ==
    IF Sendable(kwargs) THEN Raise("DynamoDB error", "ClientError")
    ELSE Raise(ErrorPrefix(op), "TypeError")

ScanRaises ==
    /\ db_pc = "scanning"
    /\ requests' = Append(requests, scan_kwargs)
    /\ db_result' = ScanError(db_op, scan_kwargs)
    /\ db_http' = ApiStatus(endpoint, ScanError(db_op, scan_kwargs))
    /\ db_pc' = "done"
    /\ UNCHANGED <<db_mock_mode, table, db_op, db_args, scan_kwargs, products,
                   pages, cursors, endpoint, api_args, s_vars, remembered, suspended>>

\* the remembered list, with one more kind of call completed after it
NoteCall(kind) ==
    IF remembered = NoResult THEN remembered
    ELSE [remembered EXCEPT !.between = @ \cup {kind}]

\* the caller takes the result; the locals of the call are gone
DbTake ==
    /\ db_pc = "done"
    /\ db_pc' = "idle"
    /\ db_op' = "none" /\ db_args' = NoCriteria /\ scan_kwargs' = NoKwargs
    /\ products' = <<>> /\ db_result' = NoResult /\ pages' = <<>> /\ requests' = <<>>
    /\ cursors' = <<>>
    /\ endpoint' = "none" /\ api_args' = NoCriteria /\ db_http' = 0
    /\ UNCHANGED <<db_mock_mode, table, s_vars, suspended>>

DbReturn ==
    /\ DbTake
    /\ remembered' = NoteCall("catalog")

\* the caller takes a filtered list and keeps it for a later comparison
DbReturnRemembered ==
    /\ remembered = NoResult
    /\ db_op = "get_products_by_filters" /\ db_result.kind = "return"
    /\ DbTake
    /\ remembered' = [kind |-> "list", args |-> db_args, value |-> db_result.value,
                      between |-> {}]

DbNext ==
    \/ get_all_products
    \/ get_products_by_filters
    \/ get_product_by_id
    \/ get_featured_products
    \/ get_categories
    \/ api_get_products
    \/ api_get_product_by_id
    \/ api_get_featured_products
    \/ api_get_categories
    \/ ScanPage
    \/ ScanRaises
    \/ DbReturn

----------------------------------------------------------------------------
(* Search data *)

Whitespace == {" ", "\t", "\n"}

\* the queries callers send; None only reaches invoke_agent directly, the
\* endpoint's request model requires a str
Queries ==
    { None, Str(<<>>), Str(<<" ">>), Str(<<" ", "\t">>),
      Str(<<"x">>), Str(<<" ", "x", " ">>),
      Str(<<"Show", " ", "me", " ", "RUNNING", " ", "shoes">>),
      Str(<<"wedding", " ", "shoes">>),
      Str(<<"Wedding", " ", "RUNNING">>), Str(<<"FORMAL", " ", "Dress">>),
      Str(<<"my", " ", "address">>), Str(<<"gibberish">>) }

SessionArgs == {None, Str(<<>>), W("S1")}

\* the sessionId the agent's response carries, None when it carries none
EchoValues == {None, W("new-session-456")}

SearchShoe(id, name, brand, type, color, price, sizes, rating) ==
    [shoe_id |-> W(id), name |-> W(name), brand |-> W(brand), type |-> W(type),
     color |-> W(color), price |-> price, sizes |-> List(sizes),
     image_url |-> W("https://placehold.co/300x300?text=" \o id),
     description |-> W(name \o " shoes"), rating |-> rating]

RunningSet ==
    << SearchShoe("mock-run-1", "Air Speed Runner", "Nike", "running", "red", Flt(8999),
                  <<PyInt(800), PyInt(900), PyInt(1000), PyInt(1100)>>, Flt(450)),
       SearchShoe("mock-run-2", "Ultra Boost", "Adidas", "running", "black", Flt(12999),
                  <<PyInt(900), PyInt(1000), PyInt(1100), PyInt(1200)>>, Flt(470)) >>
FormalSet ==
    << SearchShoe("mock-form-1", "Oxford Classic", "Clarks", "formal", "black", Flt(14999),
                  <<PyInt(900), PyInt(1000), PyInt(1100)>>, Flt(460)) >>
DefaultSet ==
    << SearchShoe("mock-1", "Casual Comfort", "Nike", "casual", "white", Flt(7999),
                  <<PyInt(800), PyInt(900), PyInt(1000), PyInt(1100), PyInt(1200)>>, Flt(430)),
       SearchShoe("mock-2", "Street Style", "Puma", "sneakers", "gray", Flt(9999),
                  <<PyInt(900), PyInt(1000), PyInt(1100)>>, Flt(440)) >>

\* what the action group (the search Lambda) may put into a trace: JSON texts
TextA == W("[{\"shoe_id\": \"a-1\", ...all fields...}]")
TextB == W("[{\"shoe_id\": \"b-1\"}, {\"shoe_id\": \"b-2\"}]")
TextBad == W("{invalid json}")
TextObject == W("{\"error\": \"Internal error\"}")
TextNull == W("null")

ProductsA ==
    << SearchShoe("a-1", "Agent Runner", "Nike", "running", "red", Flt(9900),
                  <<PyInt(1000)>>, Flt(400)) >>
ProductsB == << [shoe_id |-> W("b-1")], [shoe_id |-> W("b-2")] >>

ChunkEvent(atoms) == [chunk |-> [bytes |-> [t |-> "bytes", v |-> atoms]]]
TraceOf(orchestration) == [trace |-> [trace |-> [orchestrationTrace |-> orchestration]]]
TraceEvent(text) ==
    TraceOf([observation |-> [actionGroupInvocationOutput |-> [text |-> text]]])

\* the events an agent stream is made of
Events ==
    { ChunkEvent(<<"Here are ">>), ChunkEvent(<<"some shoes">>),
      [chunk |-> [attribution |-> None]],
      TraceEvent(TextA), TraceEvent(TextB), TraceEvent(TextBad),
      TraceEvent(TextObject), TraceEvent(TextNull),
      TraceOf([rationale |-> W("thinking")]),
      ChunkEvent(<<"Here are ">>) @@ TraceEvent(TextA) }

----------------------------------------------------------------------------
(* BedrockClient: helpers *)

RECURSIVE LStrip(_)
LStrip(s) == IF s # <<>> /\ Head(s) \in Whitespace THEN LStrip(Tail(s)) ELSE s

RECURSIVE RStrip(_)
RStrip(s) ==
    IF s # <<>> /\ s[Len(s)] \in Whitespace THEN RStrip(SubSeq(s, 1, Len(s) - 1)) ELSE s

\* query.strip()
strip(x) == Str(RStrip(LStrip(x.v)))

LowerAtom(a) ==
    CASE a = "RUNNING" -> "running"
      [] a = "Running" -> "running"
      [] a = "Show" -> "show"
      [] a = "Wedding" -> "wedding"
      [] a = "FORMAL" -> "formal"
      [] a = "Dress" -> "dress"
      [] OTHER -> a

\* a classifier that looks at the query as typed
NoLower(x) == x

\* query.lower()
lower(x) == Str([i \in 1..Len(x.v) |-> LowerAtom(x.v[i])])

\* the atom has the word as a substring
HasSubstring(atom, word) ==
    atom = word \/ <<atom, word>> \in {<<"address", "dress">>}

\* word in text
Contains(text, word) == \E i \in 1..Len(text.v) : HasSubstring(text.v[i], word)

\* a check that forgets strip()
EmptyQueryNoStrip(q) == ~Truthy(q)

\* not query or query.strip() == ""
EmptyQuery(q) == ~Truthy(q) \/ strip(q) = Str(<<>>)

\* a uuid4 that hands out one fixed value
Uuid4Fixed(n) == W("uuid-0")

\* str(uuid.uuid4()): the n-th value drawn
Uuid4(n) == W("uuid-" \o ToString(n))

\* a session id that is always generated, the caller's one ignored
CurrentSessionIdGenerated(sid, n) == Uuid4(n)

\* session_id or str(uuid.uuid4())
NeedsUuid(sid) == ~Truthy(sid)
CurrentSessionId(sid, n) == IF Truthy(sid) THEN sid ELSE Uuid4(n)

SearchResult(text, prods, sid) ==
    [agent_response |-> text, products |-> prods, session_id |-> sid]

_get_mock_response(q, sid) ==
    LET query_lower == lower(q) IN
    IF Contains(query_lower, "running")
    THEN SearchResult(
            Str(<<"I found some great running shoes for you based on '">> \o q.v \o <<"'.">>),
            List(RunningSet), sid)
    ELSE IF Contains(query_lower, "formal") \/ Contains(query_lower, "wedding")
            \/ Contains(query_lower, "dress")
    THEN SearchResult(
            Str(<<"Here are some formal options based on '">> \o q.v \o <<"'.">>),
            List(FormalSet), sid)
    ELSE SearchResult(
            Str(<<"Here's what I found for '">> \o q.v
                \o <<"'. Let me know if you'd like to narrow down by type, color, or price.">>),
            List(DefaultSet), sid)

\* json.loads(text): the decoded value, or JSONDecodeError
json_loads(text) ==
    CASE text = TextA -> [ok |-> TRUE, value |-> List(ProductsA)]
      [] text = TextB -> [ok |-> TRUE, value |-> List(ProductsB)]
      [] text = TextObject ->
            [ok |-> TRUE, value |-> [t |-> "dict", v |-> [error |-> W("Internal error")]]]
      [] text = TextNull -> [ok |-> TRUE, value |-> None]
      [] OTHER -> [ok |-> FALSE]

\* len(x) is defined (no TypeError)
HasLen(x) == x.t \in {"list", "dict", "str"}

\* d.get(k, {})
GetOrEmpty(d, k) == IF k \in DOMAIN d THEN d[k] ELSE <<>>

\* output['text'] of a trace event when every level of the envelope is there
HasPayload(e) ==
    /\ "trace" \in DOMAIN e
    /\ LET orchestration == GetOrEmpty(GetOrEmpty(e.trace, "trace"), "orchestrationTrace") IN
       /\ "observation" \in DOMAIN orchestration
       /\ "actionGroupInvocationOutput" \in DOMAIN orchestration.observation
       /\ "text" \in DOMAIN orchestration.observation.actionGroupInvocationOutput
Payload(e) == e.trace.trace.orchestrationTrace.observation.actionGroupInvocationOutput.text

\* chunk["bytes"] raises KeyError
ChunkRaises(e) == "chunk" \in DOMAIN e /\ "bytes" \notin DOMAIN e.chunk

\* len(products) raises TypeError: the decoded value has no length
TraceRaises(e) ==
    /\ HasPayload(e)
    /\ json_loads(Payload(e)).ok
    /\ ~HasLen(json_loads(Payload(e)).value)

\* the event makes the loop body raise (caught by the outer except)
EventRaises(e) == ChunkRaises(e) \/ TraceRaises(e)

\* an accumulator that puts the newest chunk in front
AddTextInFront(acc, e) ==
    IF "chunk" \in DOMAIN e THEN Str(e.chunk.bytes.v \o acc.v) ELSE acc

\* completion after the event: completion += chunk["bytes"].decode()
AddText(acc, e) ==
    IF "chunk" \in DOMAIN e THEN Str(acc.v \o e.chunk.bytes.v) ELSE acc

\* a JSONDecodeError handler that empties the list
AddProductsResetOnError(acc, e) ==
    IF HasPayload(e)
    THEN (IF json_loads(Payload(e)).ok THEN json_loads(Payload(e)).value ELSE List(<<>>))
    ELSE acc

\* an extraction that is skipped for an event that carried a chunk
AddProductsUnlessChunk(acc, e) ==
    IF "chunk" \notin DOMAIN e /\ HasPayload(e) /\ json_loads(Payload(e)).ok
    THEN json_loads(Payload(e)).value
    ELSE acc

\* an extraction that appends every decoded array to the list
AddProductsMerging(acc, e) ==
    IF HasPayload(e) /\ json_loads(Payload(e)).ok
    THEN (IF acc.t = "list" /\ json_loads(Payload(e)).value.t = "list"
          THEN List(acc.v \o json_loads(Payload(e)).value.v)
          ELSE json_loads(Payload(e)).value)
    ELSE acc

\* products after the event: replaced by the decoded payload, kept when the
\* payload is missing or does not decode
AddProducts(acc, e) ==
    IF HasPayload(e) /\ json_loads(Payload(e)).ok THEN json_loads(Payload(e)).value
    ELSE acc

\* the session id of the dictionary invoke_agent returns
ResultSessionId(current, echo) == current

\* an end of stream that fails when no product was extracted
AfterStreamNeedsProducts(text, prods, sid) ==
    IF prods = List(<<>>) THEN Raise("No products in agent response", "ValueError")
    ELSE Return(SearchResult(text, prods, sid))

\* the return statement after the event loop
AfterStream(text, prods, sid) == Return(SearchResult(text, prods, sid))

\* an except clause that lets the failure through
OnAgentFailureRaises(q, current) == Raise("Bedrock API error", "Exception")

\* an except clause that returns what the loop had gathered so far
OnAgentFailureKeepsPartial(q, current) ==
    Return(SearchResult(completion, s_products, current))

\* except Exception: return self._get_mock_response(query, current_session_id)
OnAgentFailure(q, current) == Return(_get_mock_response(q, current))

\* status of POST /api/search for what invoke_agent returned or raised
SearchStatus(r) ==
    IF r.kind = "raise" THEN 400
    ELSE IF r.value.products.t # "list" THEN 500
    ELSE IF \A i \in 1..Len(r.value.products.v) : ValidShoe(r.value.products.v[i])
    THEN 200 ELSE 400

----------------------------------------------------------------------------
(* BedrockClient.invoke_agent and search_products *)

SIdle ==
    /\ via_endpoint = FALSE /\ query = None /\ session_id = None
    /\ current_session_id = None /\ agent_calls = <<>> /\ agent_echo = None
    /\ events = <<>> /\ completion = Str(<<>>) /\ s_products = List(<<>>)
    /\ s_result = NoResult /\ s_path = "none" /\ http_status = 0

\* invoke_agent has returned or raised r; the endpoint, if any, answers
Finish(r, path, ep) ==
    /\ s_result' = r
    /\ s_path' = path
    /\ s_pc' = "done"
    /\ http_status' = IF ep THEN SearchStatus(r) ELSE 0

\* the endpoint's own validation: HTTPException(400) before any client call
EndpointRejects ==
    /\ s_pc = "idle"
    /\ \E q \in Queries \ {None}, sid \in SessionArgs :
          /\ EmptyQuery(q)
          /\ query' = q /\ session_id' = sid
    /\ via_endpoint' = TRUE
    /\ http_status' = 400
    /\ s_path' = "endpoint"
    /\ s_pc' = "done"
    /\ UNCHANGED <<agent_mock_mode, current_session_id, agent_calls, agent_echo, events,
                   completion, s_products, s_result, generated, db_vars, remembered, suspended>>

\* invoke_agent up to its first return or raise, or to the agent's answer:
\* the call raises (or answers without an event stream) and the substitute
\* is returned, or it hands back an event stream
Invoke(q, sid, ep) ==
    /\ query' = q /\ session_id' = sid /\ via_endpoint' = ep
    /\ IF EmptyQuery(q)
       THEN /\ Finish(Raise("Query cannot be empty", "ValueError"), "ValueError", ep)
            /\ UNCHANGED <<current_session_id, agent_calls, agent_echo, generated>>
       ELSE /\ NeedsUuid(sid) => Len(generated) < MaxUuids
            /\ generated' = IF NeedsUuid(sid)
                            THEN Append(generated, Uuid4(Len(generated) + 1))
                            ELSE generated
            /\ LET current == CurrentSessionId(sid, Len(generated) + 1) IN
               /\ current_session_id' = current
               /\ IF agent_mock_mode
                  THEN /\ Finish(Return(_get_mock_response(q, current)), "mock", ep)
                       /\ UNCHANGED <<agent_calls, agent_echo>>
                  ELSE /\ agent_calls' = Append(agent_calls,
                              [sessionId |-> current, inputText |-> q, enableTrace |-> TRUE])
                       /\ \/ /\ Finish(OnAgentFailure(q, current), "fallback", ep)
                             /\ UNCHANGED agent_echo
                          \/ /\ agent_echo' \in EchoValues
                             /\ s_pc' = "streaming"
                             /\ UNCHANGED <<s_result, s_path, http_status>>
    /\ UNCHANGED <<agent_mock_mode, events, completion, s_products, db_vars, remembered, suspended>>

\* a call of invoke_agent, directly or by POST /api/search after its validation
InvokeAgent ==
    /\ s_pc = "idle"
    /\ \E q \in Queries, sid \in SessionArgs, ep \in BOOLEAN :
          /\ ep => (q # None /\ ~EmptyQuery(q))
          /\ Invoke(q, sid, ep)

\* the loop body for event e: the two `if` statements, or the failure of one
\* of them caught by the outer except
Consume(e) ==
    /\ events' = Append(events, e)
    /\ IF EventRaises(e)
       THEN /\ Finish(OnAgentFailure(query, current_session_id),
                      "fallback", via_endpoint)
            /\ completion' = IF ChunkRaises(e) THEN completion
                             ELSE AddText(completion, e)
            /\ s_products' = IF ChunkRaises(e) THEN s_products
                             ELSE AddProducts(s_products, e)
       ELSE /\ completion' = AddText(completion, e)
            /\ s_products' = AddProducts(s_products, e)
            /\ UNCHANGED <<s_pc, s_result, s_path, http_status>>
    /\ UNCHANGED <<agent_mock_mode, via_endpoint, query, session_id, current_session_id,
                   agent_calls, agent_echo, generated, db_vars, remembered, suspended>>

\* one round of `for event in response.get("completion")`
NextEvent ==
    /\ s_pc = "streaming"
    /\ Len(events) < MaxEvents
    /\ \E e \in Events : Consume(e)

\* the stream is exhausted: the return statement after the loop
EndOfStream ==
    /\ s_pc = "streaming"
    /\ Finish(AfterStream(completion, s_products,
                          ResultSessionId(current_session_id, agent_echo)),
              "live", via_endpoint)
    /\ UNCHANGED <<agent_mock_mode, via_endpoint, query, session_id, current_session_id,
                   agent_calls, agent_echo, events, completion, s_products, generated,
                   db_vars, remembered, suspended>>

\* the caller takes the result; the locals of the call are gone
SReturn ==
    /\ s_pc = "done"
    /\ s_pc' = "idle"
    /\ via_endpoint' = FALSE /\ query' = None /\ session_id' = None
    /\ current_session_id' = None /\ agent_calls' = <<>> /\ agent_echo' = None
    /\ events' = <<>> /\ completion' = Str(<<>>) /\ s_products' = List(<<>>)
    /\ s_result' = NoResult /\ s_path' = "none" /\ http_status' = 0
    /\ remembered' = NoteCall("search")
    /\ UNCHANGED <<agent_mock_mode, generated, db_vars, suspended>>

SNext ==
    \/ EndpointRejects
    \/ InvokeAgent
    \/ NextEvent
    \/ EndOfStream
    \/ SReturn

----------------------------------------------------------------------------
(* A second call on the same adapters *)

\* the arguments, locals and result of the catalog call taking steps
DbFrame ==
    [db_pc |-> db_pc, db_op |-> db_op, db_args |-> db_args, scan_kwargs |-> scan_kwargs,
     products |-> products, db_result |-> db_result, pages |-> pages,
     requests |-> requests, cursors |-> cursors, endpoint |-> endpoint,
     api_args |-> api_args, db_http |-> db_http]

IdleDbFrame ==
    [db_pc |-> "idle", db_op |-> "none", db_args |-> NoCriteria, scan_kwargs |-> NoKwargs,
     products |-> <<>>, db_result |-> NoResult, pages |-> <<>>, requests |-> <<>>,
     cursors |-> <<>>, endpoint |-> "none", api_args |-> NoCriteria, db_http |-> 0]

\* the arguments, locals and result of the search call taking steps
SFrame ==
    [s_pc |-> s_pc, via_endpoint |-> via_endpoint, query |-> query,
     session_id |-> session_id, current_session_id |-> current_session_id,
     agent_calls |-> agent_calls, agent_echo |-> agent_echo, events |-> events,
     completion |-> completion, s_products |-> s_products, s_result |-> s_result,
     s_path |-> s_path, http_status |-> http_status]

IdleSFrame ==
    [s_pc |-> "idle", via_endpoint |-> FALSE, query |-> None, session_id |-> None,
     current_session_id |-> None, agent_calls |-> <<>>, agent_echo |-> None,
     events |-> <<>>, completion |-> Str(<<>>), s_products |-> List(<<>>),
     s_result |-> NoResult, s_path |-> "none", http_status |-> 0]

NoSuspended == [db |-> IdleDbFrame, s |-> IdleSFrame]

\* a product list kept on the client: the call that resumes goes on with the
\* list as the other call left it
DbLocalsSharedList(frame) == [frame EXCEPT !.products = products]

\* scan_kwargs, products and response are locals of the method: a call that
\* resumes finds them as it left them
DbLocals(frame) == frame

\* completion, products and current_session_id are locals of invoke_agent
SLocals(frame) == frame

\* the thread of the other catalog call is scheduled
switch_catalog_call ==
    /\ DbFrame # suspended.db
    /\ suspended' = [suspended EXCEPT !.db = DbFrame]
    /\ LET f == DbLocals(suspended.db) IN
       /\ db_pc' = f.db_pc /\ db_op' = f.db_op /\ db_args' = f.db_args
       /\ scan_kwargs' = f.scan_kwargs /\ products' = f.products
       /\ db_result' = f.db_result /\ pages' = f.pages /\ requests' = f.requests
       /\ cursors' = f.cursors /\ endpoint' = f.endpoint /\ api_args' = f.api_args
       /\ db_http' = f.db_http
    /\ UNCHANGED <<db_mock_mode, table, s_vars, remembered>>

\* the thread of the other search call is scheduled
switch_search_call ==
    /\ SFrame # suspended.s
    /\ suspended' = [suspended EXCEPT !.s = SFrame]
    /\ LET f == SLocals(suspended.s) IN
       /\ s_pc' = f.s_pc /\ via_endpoint' = f.via_endpoint /\ query' = f.query
       /\ session_id' = f.session_id /\ current_session_id' = f.current_session_id
       /\ agent_calls' = f.agent_calls /\ agent_echo' = f.agent_echo
       /\ events' = f.events /\ completion' = f.completion
       /\ s_products' = f.s_products /\ s_result' = f.s_result /\ s_path' = f.s_path
       /\ http_status' = f.http_status
    /\ UNCHANGED <<agent_mock_mode, generated, db_vars, remembered>>

\* criteria of the interleaved lists (none of them a float)
InterleaveCriteria ==
    { [NoCriteria EXCEPT !.type = W("running")],
      [NoCriteria EXCEPT !.color = W("black")],
      [NoCriteria EXCEPT !.size = PyInt(1200)] }

\* the tables under the interleaved calls: any of four complete items
InterleaveTables ==
    {ItemsAt(I) : I \in {J \in SUBSET {1, 3, 4, 5} : Cardinality(J) <= MaxItems}}

InterleaveQueries == {Str(<<"x">>), Str(<<"wedding", " ", "shoes">>)}

InterleaveEvents ==
    {ChunkEvent(<<"Here are ">>), TraceEvent(TextA), TraceEvent(TextNull)}

CatalogAtRest == db_pc = "idle" /\ suspended.db = IdleDbFrame
SearchAtRest == s_pc = "idle" /\ suspended.s = IdleSFrame

\* a catalog call starts while another one may be under way
start_list ==
    /\ db_pc = "idle" /\ SearchAtRest
    /\ api_args' = NoCriteria
    /\ \E a \in InterleaveCriteria : ProductsByFilters("none", a)

start_featured ==
    /\ SearchAtRest
    /\ get_featured_products

start_categories ==
    /\ SearchAtRest
    /\ get_categories

\* a search starts while another one may be under way
start_search ==
    /\ s_pc = "idle" /\ CatalogAtRest
    /\ \E q \in InterleaveQueries, sid \in {None, W("S1")} : Invoke(q, sid, FALSE)

stream_event ==
    /\ s_pc = "streaming"
    /\ Len(events) < MaxEvents
    /\ \E e \in InterleaveEvents : Consume(e)

----------------------------------------------------------------------------
(* Specifications: each adapter with the other one at rest *)

\* DynamoDBClient.__init__ with either mode over any table; no search runs
CatalogInit ==
    /\ db_mock_mode \in BOOLEAN
    /\ table \in Tables
    /\ db_pc = "idle" /\ DbIdle
    /\ agent_mock_mode = TRUE /\ s_pc = "idle" /\ SIdle /\ generated = <<>>
    /\ remembered = NoResult
    /\ suspended = NoSuspended

\* BedrockClient.__init__ with either mode; no catalog call runs
SearchInit ==
    /\ agent_mock_mode \in BOOLEAN
    /\ s_pc = "idle" /\ SIdle /\ generated = <<>>
    /\ db_mock_mode = TRUE /\ table = <<>> /\ db_pc = "idle" /\ DbIdle
    /\ remembered = NoResult
    /\ suspended = NoSuspended

CatalogSpec == CatalogInit /\ [][DbNext]_vars

SearchSpec == SearchInit /\ [][SNext]_vars

----------------------------------------------------------------------------
(* Repeated lists: one caller making catalog and search calls in turn, each *)
(* call running to its end before the next starts                          *)

\* the criteria of the lists that are repeated
RepeatCriteria ==
    { [NoCriteria EXCEPT !.type = W("running")],
      [NoCriteria EXCEPT !.color = W("black"), !.price_max = Flt(9000)],
      [NoCriteria EXCEPT !.size = PyInt(1200), !.price_min = Flt(0)] }

\* the caller's previous call has ended
NoCallRunning == db_pc = "idle" /\ s_pc = "idle"

list_products ==
    /\ NoCallRunning
    /\ api_args' = NoCriteria
    /\ \E a \in RepeatCriteria : ProductsByFilters("none", a)

\* the other calls, each started when no call is running
then_get_all_products ==
    /\ NoCallRunning
    /\ get_all_products

then_get_product_by_id ==
    /\ NoCallRunning
    /\ get_product_by_id

then_get_featured_products ==
    /\ NoCallRunning
    /\ get_featured_products

then_get_categories ==
    /\ NoCallRunning
    /\ get_categories

then_search_products ==
    /\ NoCallRunning
    /\ EndpointRejects

then_invoke_agent ==
    /\ NoCallRunning
    /\ InvokeAgent

\* either catalog mode over any table, the search provider in mock mode
RepeatInit ==
    /\ db_mock_mode \in BOOLEAN
    /\ table \in Tables
    /\ db_pc = "idle" /\ DbIdle
    /\ agent_mock_mode = TRUE /\ s_pc = "idle" /\ SIdle /\ generated = <<>>
    /\ remembered = NoResult
    /\ suspended = NoSuspended

RepeatNext ==
    \/ list_products
    \/ then_get_all_products
    \/ then_get_product_by_id
    \/ then_get_featured_products
    \/ then_get_categories
    \/ ScanPage
    \/ ScanRaises
    \/ DbReturn
    \/ DbReturnRemembered
    \/ then_search_products
    \/ then_invoke_agent
    \/ SReturn

RepeatSpec == RepeatInit /\ [][RepeatNext]_vars

\* two catalog calls on one client, or two searches on one client, their
\* steps interleaved; the adapter of the other side is in mock mode
InterleaveInit ==
    /\ db_mock_mode \in BOOLEAN
    /\ table \in InterleaveTables
    /\ agent_mock_mode \in BOOLEAN
    /\ ~agent_mock_mode => (db_mock_mode /\ table = <<>>)
    /\ db_pc = "idle" /\ DbIdle
    /\ s_pc = "idle" /\ SIdle /\ generated = <<>>
    /\ remembered = NoResult
    /\ suspended = NoSuspended

InterleaveNext ==
    \/ start_list
    \/ start_featured
    \/ start_categories
    \/ ScanPage
    \/ ScanRaises
    \/ DbReturn
    \/ switch_catalog_call
    \/ start_search
    \/ stream_event
    \/ EndOfStream
    \/ SReturn
    \/ switch_search_call

InterleaveSpec == InterleaveInit /\ [][InterleaveNext]_vars

----------------------------------------------------------------------------
(* Properties of the catalog adapter (CatalogSpec) *)

Supplied(x) == ~IsNone(x)

RECURSIVE Flatten(_)
\* the pages of a scan laid end to end
Flatten(ss) == IF ss = <<>> THEN <<>> ELSE Head(ss) \o Flatten(Tail(ss))

\* product p meets every criterion of a that was supplied
Satisfies(p, a) ==
    /\ Supplied(a.type) => ("type" \in DOMAIN p /\ PyEq(p.type, a.type))
    /\ Supplied(a.color) => ("color" \in DOMAIN p /\ PyEq(p.color, a.color))
    /\ Supplied(a.size) =>
          /\ "sizes" \in DOMAIN p
          /\ \E i \in 1..Len(p.sizes.v) : p.sizes.v[i].v = a.size.v
    /\ Supplied(a.price_min) => ("price" \in DOMAIN p /\ p.price.v >= a.price_min.v)
    /\ Supplied(a.price_max) => ("price" \in DOMAIN p /\ p.price.v <= a.price_max.v)

ListReturned(op) == db_pc = "done" /\ db_op = op /\ db_result.kind = "return"

\* C1: every product returned by get_products_by_filters (live or mock)
\* satisfies every criterion that was supplied (not None): type equal, color
\* equal, size among the sizes, price within the inclusive bounds.
C1_ReturnedSatisfyEverySupplied ==
    ListReturned("get_products_by_filters") =>
        \A i \in 1..Len(db_result.value) : Satisfies(db_result.value[i], db_args)

\* C2: a paged live scan returns nothing before its last page, and then the
\* concatenation of all pages in page order, which is what one page holding
\* the same items gives: the matching items of the table in table order.
C2_PagesMerged ==
    /\ db_pc = "scanning" => db_result = NoResult
    /\ (db_pc = "done" /\ ~db_mock_mode /\ db_op \in ScanOps /\ db_result.kind = "return") =>
          LET merged == Flatten(pages)
              onePage == SelectSeq(table,
                             LAMBDA item : HoldsAll(item, requests[1].FilterExpression))
          IN  /\ merged = onePage
              /\ db_op = "get_categories" => db_result.value = CategoriesOf(merged)
              /\ db_op # "get_categories" =>
                    /\ Len(db_result.value) = Len(merged)
                    /\ \A i \in 1..Len(merged) : db_result.value[i] = ConvertItem(merged[i])

\* C2 witness: get_all_products has returned three items received in two
\* non-empty pages
C2_Witness ==
    /\ ListReturned("get_all_products") /\ ~db_mock_mode
    /\ Len(pages) = 2 /\ pages[1] # <<>> /\ pages[2] # <<>>
    /\ Len(db_result.value) = 3

NoDecimalIn(x) ==
    /\ x.t # "Decimal"
    /\ x.t = "list" => \A i \in 1..Len(x.v) : x.v[i].t # "Decimal"

NoDecimalInRecord(p) == \A k \in DOMAIN p : NoDecimalIn(p[k])

\* C10: no record returned by the live list, filtered list, featured or
\* get-by-id operation holds a Decimal, at the top or inside a nested list.
C10_NoDecimalLeaves ==
    (db_pc = "done" /\ ~db_mock_mode /\ db_result.kind = "return") =>
        /\ db_op \in {"get_all_products", "get_products_by_filters", "get_featured_products"} =>
              \A i \in 1..Len(db_result.value) : NoDecimalInRecord(db_result.value[i])
        /\ (db_op = "get_product_by_id" /\ db_result.value # None) =>
              NoDecimalInRecord(db_result.value)

\* the values of attribute a that occur in the items
Occurring(items, a) ==
    {items[i][a] : i \in {j \in 1..Len(items) : a \in DOMAIN items[j]}}

\* strictly ascending in str order: sorted and free of duplicates
Ascending(l) == \A i, j \in 1..Len(l) : i < j => StrLess(l[i], l[j])

Elements(l) == {l[i] : i \in 1..Len(l)}

CategoryItem(id, type, color) == [shoe_id |-> W(id), type |-> W(type), color |-> W(color)]

\* C11: live get_categories scans every page without a filter and returns
\* types and colors strictly ascending (sorted, no duplicate), holding exactly
\* the type and color values that occur in the table; types running, casual,
\* running, formal give [casual, formal, running], colors red, blue, red give
\* [blue, red].
C11_LiveCategoriesSortedDistinct ==
    /\ (ListReturned("get_categories") /\ ~db_mock_mode) =>
          /\ Flatten(pages) = table
          /\ \A i \in 1..Len(requests) : requests[i].FilterExpression = <<>>
          /\ Ascending(db_result.value.types)
          /\ Elements(db_result.value.types) = Occurring(table, "type")
          /\ Ascending(db_result.value.colors)
          /\ Elements(db_result.value.colors) = Occurring(table, "color")
    /\ CategoriesOf(<<CategoryItem("1", "running", "red"), CategoryItem("2", "casual", "blue"),
                      CategoryItem("3", "running", "red"), CategoryItem("4", "formal", "black")>>).types
          = <<W("casual"), W("formal"), W("running")>>
    /\ CategoriesOf(<<CategoryItem("1", "running", "red"), CategoryItem("2", "casual", "blue"),
                      CategoryItem("3", "running", "red")>>).colors
          = <<W("blue"), W("red")>>

\* C11 witness: three typed items in two pages, two of them of one type and
\* listed before an item whose type sorts first
C11_Witness ==
    /\ ListReturned("get_categories") /\ ~db_mock_mode
    /\ Len(table) = 3 /\ Len(pages) = 2
    /\ \A i \in 1..3 : "type" \in DOMAIN table[i]
    /\ table[1].type = W("running") /\ table[2].type = W("formal")
    /\ db_result.value.types = <<W("formal"), W("running")>>

\* the product list of the catalog, as get_all_products returns it
Listed == IF db_mock_mode THEN mock_products ELSE _convert_decimals(table)

\* C12: get_product_by_id(id) returns the listed product whose shoe_id is id
\* when the catalog has one and None otherwise; GET /api/products/{shoe_id}
\* answers 404 exactly when the client returned None, and a product it
\* answers with is the one asked for.
C12_ProductByIdOrNotFound ==
    (db_pc = "done" /\ db_op = "get_product_by_id" /\ db_result.kind = "return") =>
        LET id == db_args.type
            hits == {i \in 1..Len(Listed) : Listed[i].shoe_id = id}
        IN  /\ hits # {} => \E i \in hits : db_result.value = Listed[i]
            /\ hits = {} => db_result.value = None
            /\ endpoint = "/api/products/{shoe_id}" =>
                  /\ hits = {} <=> db_http = 404
                  /\ db_http = 200 => db_result.value.shoe_id = id
                  /\ (hits # {} /\ ValidShoe(db_result.value)) => db_http = 200

\* C12 witness: the route has answered 404 for an id that a non-empty live
\* table does not hold
C12_Witness ==
    /\ db_pc = "done" /\ endpoint = "/api/products/{shoe_id}" /\ ~db_mock_mode
    /\ db_args.type = W("nope") /\ Len(table) = 3
    /\ db_result = Return(None) /\ db_http = 404

\* the last store call of a finished live operation was not answered
StoreCallFailed == db_pc = "done" /\ ~db_mock_mode /\ Len(requests) > Len(pages)

\* C13: when a store call of a live operation fails (a scan of any page, or
\* the key lookup), the operation ends at once by raising one error that
\* carries the cause and none of the pages fetched before; the failed call
\* was its last store call, and no failure is survived by the scan loop.
C13_StoreFailureRaisesOnce ==
    /\ [](StoreCallFailed =>
            /\ db_result.kind = "raise"
            /\ DOMAIN db_result = {"kind", "error", "cause"}
            /\ db_result.cause \in {"ClientError", "TypeError"}
            /\ Len(requests) = Len(pages) + 1)
    /\ [](db_pc = "scanning" => Len(requests) = Len(pages))
    /\ []((db_pc = "done" /\ db_result.kind = "raise") => StoreCallFailed)
    /\ [][StoreCallFailed => (db_pc' = "idle" /\ requests' = <<>>)]_vars

\* C13 witness: the second scan of get_all_products failed after a first
\* page with items
C13_Witness ==
    /\ StoreCallFailed /\ db_op = "get_all_products"
    /\ Len(pages) = 1 /\ pages[1] # <<>> /\ Len(requests) = 2
    /\ db_result = Raise("DynamoDB error", "ClientError")

\* every item of the table has all the attributes of a product
CompleteTable == \A i \in 1..Len(table) : ValidShoe(table[i])

\* C15: over the same dataset and for the same criteria the live adapter
\* returns the products the mock provider's filter selects: a live
\* get_products_by_filters whose store answers returns exactly what the mock
\* filter keeps of the table's products.
C15_MockAndLiveSelectTheSame ==
    (db_pc = "done" /\ ~db_mock_mode /\ db_op = "get_products_by_filters"
        /\ CompleteTable
        /\ ~(db_result.kind = "raise" /\ db_result.cause = "ClientError")) =>
        /\ db_result.kind = "return"
        /\ db_result.value = ApplyFilters(_convert_decimals(table), db_args)

\* C16: mock get_categories returns exactly the distinct types and the
\* distinct colors of the mock dataset that the mock list returns, each
\* strictly ascending.
C16_MockCategoriesOfMockDataset ==
    (ListReturned("get_categories") /\ db_mock_mode) =>
        /\ Ascending(db_result.value.types)
        /\ Elements(db_result.value.types) = Occurring(_get_mock_products(NoCriteria), "type")
        /\ Ascending(db_result.value.colors)
        /\ Elements(db_result.value.colors) = Occurring(_get_mock_products(NoCriteria), "color")

\* both bounds are present and the lower one is above the upper one
InvalidRange(a) ==
    /\ ~IsNone(a.price_min) /\ ~IsNone(a.price_max)
    /\ a.price_min.v > a.price_max.v

\* C18: criteria with price_min above price_max are rejected before any
\* store call and never run as a query: no scan is sent, no list is
\* returned, and GET /api/products answers 400.
C18_InvalidPriceRangeRejected ==
    (db_pc # "idle" /\ (InvalidRange(api_args) \/ InvalidRange(db_args))) =>
        /\ db_pc = "done"
        /\ requests = <<>>
        /\ db_result.kind # "return"
        /\ endpoint = "/api/products" => db_http = 400

\* the products of the dataset that meet every supplied criterion of a, in
\* dataset order
Matches(a) == SelectSeq(Listed, LAMBDA p : Satisfies(p, a))

\* C27: get_products_by_filters omits no match: the matching products of the
\* dataset (mock dataset, or the whole live table) are all in the result, once
\* each and in dataset order, the result itself is a part of the dataset in
\* dataset order without repeats, and without criteria it is the whole
\* dataset, which is also what get_all_products returns.
C27_NoMatchOmitted ==
    /\ ListReturned("get_products_by_filters") =>
          /\ SelectSeq(db_result.value, LAMBDA p : Satisfies(p, db_args)) = Matches(db_args)
          /\ db_result.value =
                SelectSeq(Listed, LAMBDA p : p \in Elements(db_result.value))
          /\ db_args = NoCriteria => db_result.value = Listed
    /\ ListReturned("get_all_products") => db_result.value = Listed

\* C27 witness: a live list by color has returned two of three stored items,
\* both received in the first of two pages
C27_Witness ==
    /\ ListReturned("get_products_by_filters") /\ ~db_mock_mode
    /\ db_args.color = W("black") /\ Len(table) = 3
    /\ Len(pages) = 2 /\ Len(pages[1]) = 2
    /\ Len(db_result.value) = 2

\* C26: GET /api/products applies the price bounds the caller supplied, a
\* bound of zero included: every product of the response is within every
\* bound that is not absent.
C26_ZeroBoundApplied ==
    (endpoint = "/api/products" /\ db_pc = "done" /\ db_result.kind = "return") =>
        \A i \in 1..Len(db_result.value) :
            /\ Supplied(api_args.price_min) =>
                  ("price" \in DOMAIN db_result.value[i]
                      /\ db_result.value[i].price.v >= api_args.price_min.v)
            /\ Supplied(api_args.price_max) =>
                  ("price" \in DOMAIN db_result.value[i]
                      /\ db_result.value[i].price.v <= api_args.price_max.v)

\* C19: get_featured_products returns exactly the products whose featured
\* flag is true: all of them and only them, from the mock dataset or from the
\* live table, and every scan of the live adapter carries the featured
\* predicate.
C19_FeaturedExactly ==
    /\ ListReturned("get_featured_products") =>
          /\ \A i \in 1..Len(db_result.value) : db_result.value[i].featured = Bool(TRUE)
          /\ db_result.value =
                SelectSeq(Listed, LAMBDA p : "featured" \in DOMAIN p /\ p.featured = Bool(TRUE))
    /\ (db_op = "get_featured_products" /\ ~db_mock_mode) =>
          /\ scan_kwargs.FilterExpression = <<Cond("featured", "eq", Bool(TRUE))>>
          /\ \A i \in 1..Len(requests) :
                requests[i].FilterExpression = <<Cond("featured", "eq", Bool(TRUE))>>

\* C19 witness: a live table of three items, one of them not featured, has
\* been scanned in two pages and the two featured items returned
C19_Witness ==
    /\ ListReturned("get_featured_products") /\ ~db_mock_mode
    /\ Len(table) = 3 /\ Len(pages) = 2 /\ Len(db_result.value) = 2
    /\ \E i \in 1..3 : "featured" \in DOMAIN table[i] /\ table[i].featured = Bool(FALSE)

\* C24: in a live paged scan the first request has no cursor, every later
\* request has the cursor of the page received just before it and the filter
\* of the first request, every request but a failed last one is answered
\* before the next is sent, the scan ends with the first page without a
\* cursor (n pages, n scans), and no returned record holds a cursor.
C24_OnePageAtATime ==
    (db_op \in ScanOps /\ ~db_mock_mode) =>
        /\ Len(cursors) = Len(pages)
        /\ \A i \in 1..Len(requests) :
              /\ requests[i].FilterExpression = requests[1].FilterExpression
              /\ requests[i].ExclusiveStartKey = IF i = 1 THEN 0 ELSE cursors[i - 1]
              /\ i > 1 => cursors[i - 1] # 0
        /\ db_pc = "scanning" =>
              /\ Len(requests) = Len(pages)
              /\ \A i \in 1..Len(cursors) : cursors[i] # 0
              /\ scan_kwargs.ExclusiveStartKey =
                    IF cursors = <<>> THEN 0 ELSE cursors[Len(cursors)]
        /\ (db_pc = "done" /\ db_result.kind = "return") =>
              /\ Len(requests) = Len(pages) /\ Len(pages) >= 1
              /\ \A i \in 1..Len(cursors) : (cursors[i] = 0) <=> (i = Len(cursors))
              /\ db_op # "get_categories" =>
                    \A i \in 1..Len(db_result.value) :
                        {"LastEvaluatedKey", "ExclusiveStartKey"} \cap DOMAIN db_result.value[i] = {}
              /\ db_op = "get_categories" =>
                    DOMAIN db_result.value = {"types", "colors"}

\* C24 witness: a filtered list has returned after three pages
C24_Witness ==
    /\ ListReturned("get_products_by_filters") /\ ~db_mock_mode
    /\ db_args.color = W("black")
    /\ Len(pages) = 3 /\ Len(requests) = 3
    /\ cursors[1] # 0 /\ cursors[2] # cursors[1] /\ cursors[3] = 0
    /\ Len(db_result.value) = 2

----------------------------------------------------------------------------
(* Properties of repeated lists (RepeatSpec) *)

\* C17: a get_products_by_filters that returns for the criteria of an earlier
\* one, the table and the mode being the same, returns the same set of
\* products, whatever catalog and search calls completed in between.
C17_RepeatedListSameSet ==
    (ListReturned("get_products_by_filters") /\ remembered # NoResult
        /\ remembered.args = db_args) =>
        Elements(db_result.value) = Elements(remembered.value)

\* C17 witness: a live list in two pages has returned products again, after
\* a catalog call and a search call that followed the first list
C17_Witness ==
    /\ ListReturned("get_products_by_filters") /\ ~db_mock_mode
    /\ remembered # NoResult /\ remembered.args = db_args
    /\ remembered.between = {"catalog", "search"}
    /\ Len(pages) = 2 /\ Len(db_result.value) >= 2

\* C29: an adapter in mock mode sends nothing to the store or the agent and
\* answers every catalog operation and every search from in-process data
\* (the mock dataset, the fixed category lists, the fixed search sets), and no
\* step of any call changes the mode of either adapter.
C29_MockNeverCallsOut ==
    /\ [](db_mock_mode =>
            /\ requests = <<>> /\ pages = <<>> /\ cursors = <<>>
            /\ db_pc \in {"idle", "done"}
            /\ db_pc = "done" =>
                  /\ db_result.kind = "return"
                  /\ db_op \in {"get_all_products", "get_products_by_filters",
                                 "get_featured_products"} =>
                        Elements(db_result.value) \subseteq Elements(mock_products)
                  /\ db_op = "get_categories" => db_result.value = MockCategories
                  /\ db_op = "get_product_by_id" =>
                        db_result.value \in Elements(mock_products) \cup {None})
    /\ [](agent_mock_mode =>
            /\ agent_calls = <<>> /\ events = <<>>
            /\ s_pc \in {"idle", "done"}
            /\ s_path \in {"none", "endpoint", "ValueError", "mock"}
            /\ s_path = "mock" =>
                  s_result = Return(_get_mock_response(query, current_session_id)))
    /\ [][db_mock_mode' = db_mock_mode /\ agent_mock_mode' = agent_mock_mode]_vars

\* C29 witness: in mock mode a list has returned products for the second
\* time, a catalog call and a search having completed since the first
C29_Witness ==
    /\ db_mock_mode /\ agent_mock_mode
    /\ ListReturned("get_products_by_filters") /\ db_result.value # <<>>
    /\ remembered # NoResult /\ remembered.between = {"catalog", "search"}
    /\ requests = <<>>

----------------------------------------------------------------------------
(* Properties of the search bridge (SearchSpec) *)

\* None, empty or made of whitespace only
Blank(q) == IsNone(q) \/ \A i \in 1..Len(q.v) : q.v[i] \in Whitespace

\* C3: a query that is None, empty or only whitespace fails with the
\* invalid-input error 'Query cannot be empty' and no request reaches the
\* agent, in mock and in live mode; through POST /api/search it is HTTP 400.
C3_BlankQueryRejected ==
    (s_pc # "idle" /\ Blank(query)) =>
        /\ s_pc = "done"
        /\ agent_calls = <<>>
        /\ ~via_endpoint => s_result = Raise("Query cannot be empty", "ValueError")
        /\ via_endpoint => (http_status = 400 /\ s_result.kind # "return")

\* C3 witness: the live bridge has rejected a whitespace-only query
C3_Witness ==
    /\ s_pc = "done" /\ ~agent_mock_mode /\ ~via_endpoint
    /\ query = Str(<<" ", "\t">>)
    /\ s_result.kind = "raise"

IsTextChunk(e) == DOMAIN e = {"chunk"} /\ "bytes" \in DOMAIN e.chunk

RECURSIVE TextOf(_)
\* the chunk texts of a stream, joined in stream order
TextOf(es) ==
    IF es = <<>> THEN <<>>
    ELSE (IF "chunk" \in DOMAIN Head(es) /\ "bytes" \in DOMAIN Head(es).chunk
          THEN Head(es).chunk.bytes.v ELSE <<>>) \o TextOf(Tail(es))

ArrayIn(e) == IF e = TraceEvent(TextA) THEN ProductsA ELSE ProductsB

\* the stream is text chunks plus one malformed trace at i and one
\* well-formed product array at j
OneBadOneGood(es, i, j) ==
    /\ i # j
    /\ es[i] = TraceEvent(TextBad)
    /\ es[j] \in {TraceEvent(TextA), TraceEvent(TextB)}
    /\ \A k \in (1..Len(es)) \ {i, j} : IsTextChunk(es[k])

\* C5: a stream with one malformed trace fragment and one well-formed
\* product-array fragment, in either order, ends in a normal live result with
\* the well-formed list and the accumulated text.
C5_MalformedFragmentSkipped ==
    s_pc = "done" =>
        \A i, j \in 1..Len(events) :
            OneBadOneGood(events, i, j) =>
                /\ s_path = "live"
                /\ s_result.kind = "return"
                /\ s_result.value.products = List(ArrayIn(events[j]))
                /\ s_result.value.agent_response = Str(TextOf(events))

\* C5 witness: the well-formed array came first, then text, then the
\* malformed fragment
C5_Witness ==
    /\ s_pc = "done"
    /\ events = <<TraceEvent(TextB), ChunkEvent(<<"Here are ">>), TraceEvent(TextBad)>>
    /\ s_result.kind = "return"

\* a fragment that contributes neither text nor a product payload
Unrecoverable(e) ==
    /\ "chunk" \notin DOMAIN e
    /\ e \in {TraceEvent(TextBad), TraceOf([rationale |-> W("thinking")])}

\* C6: when the stream ends having yielded no valid product payload and no
\* text, search fails (BadAgentResponse) instead of returning a result.
C6_NothingRecoverableFails ==
    (s_pc = "done" /\ s_path = "live"
        /\ \A i \in 1..Len(events) : Unrecoverable(events[i])) =>
        s_result.kind = "raise"

\* C7: when the agent's response carries a session id, the result's
\* session id is that one.
C7_AgentEchoWins ==
    (s_pc = "done" /\ s_path = "live" /\ ~IsNone(agent_echo)) =>
        s_result.value.session_id = agent_echo

\* C8: with a non-empty session id S supplied and none echoed by the agent,
\* the agent is invoked with exactly S and the unmodified query, and the
\* result's session id is S, for the live, mock and fallback result.
C8_SuppliedSessionKept ==
    (s_pc = "done" /\ ~Blank(query) /\ session_id.t = "str" /\ session_id.v # <<>>
        /\ IsNone(agent_echo)) =>
        /\ s_path \in {"live", "mock", "fallback"}
        /\ s_result.kind = "return"
        /\ s_result.value.session_id = session_id
        /\ ~agent_mock_mode =>
              /\ Len(agent_calls) = 1
              /\ agent_calls[1].sessionId = session_id
              /\ agent_calls[1].inputText = query
        /\ agent_mock_mode => agent_calls = <<>>

\* C8 witness: a live result for a query with surrounding blanks and S1
C8_Witness ==
    /\ s_pc = "done" /\ s_path = "live"
    /\ session_id = W("S1") /\ query = Str(<<" ", "x", " ">>)
    /\ IsNone(agent_echo) /\ events # <<>>

Mentions(q, word) ==
    \E i \in 1..Len(q.v) :
        \/ q.v[i] \in {word, "address"} /\ word = "dress"
        \/ <<q.v[i], word>> \in {<<"running", "running">>, <<"RUNNING", "running">>,
                                  <<"Running", "running">>, <<"formal", "formal">>,
                                  <<"FORMAL", "formal">>, <<"wedding", "wedding">>,
                                  <<"Wedding", "wedding">>, <<"Dress", "dress">>}

MockAnswered == s_pc = "done" /\ s_path = "mock" /\ s_result.kind = "return"

\* C14: the mock search result is the running set (products of type running
\* only) when the query mentions 'running' in any letter case; otherwise the
\* formal set when it mentions 'formal', 'wedding' or 'dress'; otherwise the
\* default set; 'running' wins over the formal keywords.
C14_MockClassifiesByKeyword ==
    MockAnswered =>
        LET got == s_result.value.products IN
        /\ Mentions(query, "running") =>
              /\ got = List(RunningSet)
              /\ \A i \in 1..Len(got.v) : got.v[i].type = W("running")
        /\ (~Mentions(query, "running")
               /\ (Mentions(query, "formal") \/ Mentions(query, "wedding")
                     \/ Mentions(query, "dress"))) => got = List(FormalSet)
        /\ (~Mentions(query, "running") /\ ~Mentions(query, "formal")
               /\ ~Mentions(query, "wedding") /\ ~Mentions(query, "dress")) =>
              got = List(DefaultSet)
        /\ query = Str(<<"Show", " ", "me", " ", "RUNNING", " ", "shoes">>) =>
              got = List(RunningSet)
        /\ query = Str(<<"Wedding", " ", "RUNNING">>) => got = List(RunningSet)
        /\ query = Str(<<"wedding", " ", "shoes">>) => got = List(FormalSet)
        /\ query = Str(<<"FORMAL", " ", "Dress">>) => got = List(FormalSet)
        /\ query = Str(<<"gibberish">>) => got = List(DefaultSet)

\* C14 witness: the mock provider has answered a query that has 'Wedding'
\* and 'RUNNING' in it
C14_Witness ==
    /\ MockAnswered /\ agent_mock_mode
    /\ query = Str(<<"Wedding", " ", "RUNNING">>)
    /\ s_result.value.products = List(RunningSet)

\* a fragment that carries no product payload the bridge can decode: a text
\* chunk, a trace without tool output, or a trace whose output is not JSON
NoProducts(e) ==
    \/ IsTextChunk(e)
    \/ e \in {TraceEvent(TextBad), TraceOf([rationale |-> W("thinking")])}

\* text arrived, and no fragment carried a decodable product payload
TextButNoProducts(es) ==
    /\ \E i \in 1..Len(es) : IsTextChunk(es[i])
    /\ \A i \in 1..Len(es) : NoProducts(es[i])

C21_ResultShape ==
    (s_pc = "done" /\ s_result.kind = "return") =>
        /\ DOMAIN s_result.value = {"agent_response", "products", "session_id"}
        /\ s_result.value.agent_response.t = "str"
        /\ s_result.value.products.t = "list"
        /\ s_result.value.session_id.t = "str"

LiveAnswered == s_pc = "done" /\ s_path = "live" /\ s_result.kind = "return"

\* the fragment is a trace whose tool output is a JSON array of products
CarriesArray(e) ==
    /\ "trace" \in DOMAIN e
    /\ [trace |-> e.trace] \in {TraceEvent(TextA), TraceEvent(TextB)}

ArrayOf(e) == IF [trace |-> e.trace] = TraceEvent(TextA) THEN ProductsA ELSE ProductsB

\* the fragment is a trace whose tool output decodes as JSON
CarriesJson(e) ==
    /\ "trace" \in DOMAIN e
    /\ [trace |-> e.trace] \in {TraceEvent(TextA), TraceEvent(TextB),
                                 TraceEvent(TextObject), TraceEvent(TextNull)}

ChunksOnly(es) ==
    LET withChunk == SelectSeq(es, LAMBDA e : "chunk" \in DOMAIN e)
    IN  [k \in 1..Len(withChunk) |-> [chunk |-> withChunk[k].chunk]]

\* the stream with its chunks taken away: the traces only
TracesOnly(es) ==
    LET withTrace == SelectSeq(es, LAMBDA e : "trace" \in DOMAIN e)
    IN  [k \in 1..Len(withTrace) |-> [trace |-> withTrace[k].trace]]

\* what the decodable fragments of a stream leave as product list: the value
\* of the last one, [] when there is none
LastDecoded(es) ==
    LET hits == {i \in 1..Len(es) : CarriesJson(es[i])}
        last == CHOOSE i \in hits : \A j \in hits : j <= i
    IN  IF hits = {} THEN List(<<>>)
        ELSE IF [trace |-> es[last].trace] = TraceEvent(TextObject)
        THEN [t |-> "dict", v |-> [error |-> W("Internal error")]]
        ELSE List(ArrayOf(es[last]))

CarriesObject(e) ==
    "trace" \in DOMAIN e /\ [trace |-> e.trace] = TraceEvent(TextObject)

----------------------------------------------------------------------------
(* Properties of interleaved calls (InterleaveSpec) *)

\* the filter a catalog call with the frame f puts into its scans
OwnFilter(f) ==
    CASE f.db_op = "get_products_by_filters" -> BuildFilter(f.db_args)
      [] f.db_op = "get_featured_products" -> FeaturedFilter
      [] OTHER -> <<>>

\* what the catalog call with the frame f returns when no other call runs
AloneValue(f) ==
    IF db_mock_mode
    THEN CASE f.db_op = "get_products_by_filters" -> _get_mock_products(f.db_args)
           [] f.db_op = "get_featured_products" ->
                 SelectSeq(mock_products, LAMBDA p : IsFeatured(p, FALSE))
           [] OTHER -> MockCategories
    ELSE LET m == SelectSeq(table, LAMBDA item : HoldsAll(item, OwnFilter(f)))
         IN  IF f.db_op = "get_categories" THEN CategoriesOf(m) ELSE _convert_decimals(m)

\* the part of the table between two cursors, as the filter of f lets it through
OwnPage(f, i) ==
    LET from == IF i = 1 THEN 0 ELSE f.cursors[i - 1]
        upto == IF f.cursors[i] = 0 THEN Len(table) ELSE f.cursors[i]
    IN  SelectSeq(SubSeq(table, from + 1, upto),
                  LAMBDA item : HoldsAll(item, OwnFilter(f)))

\* the catalog call with the frame f has seen and done only what is its own
CatalogCallAlone(f) ==
    /\ (f.db_pc # "idle" /\ ~db_mock_mode) =>
          /\ Len(f.cursors) = Len(f.pages)
          /\ \A i \in 1..Len(f.requests) :
                f.requests[i] = [FilterExpression |-> OwnFilter(f),
                                 ExclusiveStartKey |-> IF i = 1 THEN 0 ELSE f.cursors[i - 1]]
          /\ \A i \in 1..Len(f.pages) : f.pages[i] = OwnPage(f, i)
          /\ f.db_pc = "scanning" =>
                /\ f.products = Flatten(f.pages)
                /\ f.scan_kwargs.FilterExpression = OwnFilter(f)
          /\ (f.db_pc = "done" /\ f.db_result.kind = "raise") =>
                Len(f.requests) = Len(f.pages) + 1
    /\ (f.db_pc = "done" /\ f.db_result.kind = "return") =>
          f.db_result.value = AloneValue(f)

\* the search with the frame g has seen and done only what is its own
SearchCallAlone(g) ==
    /\ (g.s_pc # "idle" /\ ~agent_mock_mode) =>
          g.agent_calls = << [sessionId |-> g.current_session_id, inputText |-> g.query,
                              enableTrace |-> TRUE] >>
    /\ g.s_pc # "idle" =>
          /\ Truthy(g.session_id) => g.current_session_id = g.session_id
          /\ NeedsUuid(g.session_id) => g.current_session_id \in Elements(generated)
    /\ g.s_pc = "streaming" =>
          /\ g.completion = Str(TextOf(g.events))
          /\ g.s_products = LastDecoded(g.events)
    /\ (g.s_pc = "done" /\ g.s_path = "live") =>
          g.s_result = Return(SearchResult(Str(TextOf(g.events)), LastDecoded(g.events),
                                           g.current_session_id))
    /\ (g.s_pc = "done" /\ g.s_path \in {"fallback", "mock"}) =>
          g.s_result = Return(_get_mock_response(g.query, g.current_session_id))

\* C25: two catalog calls or two searches on one adapter whose steps are
\* interleaved share nothing: each call sends its own filter and its own
\* cursors, receives the pages (or events) of its own requests only, and
\* returns what it returns when run alone; two searches without a session id
\* get different ids; and no step changes a mode or the table.
C25_CallsShareNothing ==
    /\ [](/\ CatalogCallAlone(DbFrame) /\ CatalogCallAlone(suspended.db)
          /\ SearchCallAlone(SFrame) /\ SearchCallAlone(suspended.s)
          /\ (s_pc # "idle" /\ suspended.s.s_pc # "idle"
                 /\ NeedsUuid(session_id) /\ NeedsUuid(suspended.s.session_id)) =>
                current_session_id # suspended.s.current_session_id)
    /\ [][/\ db_mock_mode' = db_mock_mode /\ table' = table
          /\ agent_mock_mode' = agent_mock_mode]_vars

\* C25 witness: a live list by color has returned after two pages while a
\* list by type, started before it ended, is between its first and its
\* second page
C25_Witness ==
    /\ ~db_mock_mode
    /\ ListReturned("get_products_by_filters") /\ db_args.color = W("black")
    /\ Len(pages) = 2 /\ pages[1] # <<>> /\ pages[2] # <<>>
    /\ suspended.db.db_pc = "scanning" /\ suspended.db.db_op = "get_products_by_filters"
    /\ suspended.db.db_args.type = W("running")
    /\ Len(suspended.db.pages) = 1 /\ suspended.db.products # <<>>
    /\ suspended.db.products # pages[1]

====
